---- MODULE Spec2Model ----
(***************************************************************************)
(* Model of main.go: the opening-price-gap CLI.  main loads ./opg.csv,     *)
(* deletes the stocks whose |Gap| < 0.1, starts one goroutine per          *)
(* remaining stock (Calculate + FetchNews, one send on selectionChan),     *)
(* collects the selections from the channel, closes it after len(stocks)   *)
(* receives and hands the batch to Deliver.                                *)
(*                                                                         *)
(* float64 values are modelled as exact rationals extended with NaN and    *)
(* +Inf/-Inf (the IEEE special values the code can produce or parse);      *)
(* binary rounding error of finite results is not modelled, and the input  *)
(* rows are chosen so that no finite result sits on a rounding boundary.   *)
(***************************************************************************)
EXTENDS Integers, Naturals, Sequences, FiniteSets, TLC

\* Largest number of data rows in opg.csv (after the header row).
MaxRows == 2

----------------------------------------------------------------------------
\* float64: [k |-> "fin", n, d] is n/d in lowest terms with d > 0;
\* [k |-> "inf", n |-> 1 or -1] is +Inf / -Inf; [k |-> "nan"] is NaN.

AbsInt(i) == IF i < 0 THEN -i ELSE i

SignInt(i) == IF i < 0 THEN -1 ELSE 1

RECURSIVE Gcd(_, _)
Gcd(a, b) == IF b = 0 THEN a ELSE Gcd(b, a % b)

NaN == [k |-> "nan", n |-> 0, d |-> 1]

Inf(sign) == [k |-> "inf", n |-> sign, d |-> 1]

Fin(num, den) ==
    LET g == Gcd(AbsInt(num), den)
    IN  [k |-> "fin", n |-> num \div g, d |-> den \div g]

IsFinite(x) == x.k = "fin"

IsZero(x) == x.k = "fin" /\ x.n = 0

\* x + y
FAdd(x, y) ==
    IF x.k = "nan" \/ y.k = "nan" THEN NaN
    ELSE IF x.k = "inf" /\ y.k = "inf" THEN (IF x.n = y.n THEN x ELSE NaN)
    ELSE IF x.k = "inf" THEN x
    ELSE IF y.k = "inf" THEN y
    ELSE Fin(x.n * y.d + y.n * x.d, x.d * y.d)

FNeg(x) == IF x.k = "nan" THEN NaN ELSE [x EXCEPT !.n = -x.n]

\* x - y
FSub(x, y) == FAdd(x, FNeg(y))

\* x * y
FMul(x, y) ==
    IF x.k = "nan" \/ y.k = "nan" THEN NaN
    ELSE IF x.k = "inf" \/ y.k = "inf"
         THEN (IF IsZero(x) \/ IsZero(y) THEN NaN
               ELSE Inf(SignInt(x.n) * SignInt(y.n)))
    ELSE LET g1 == Gcd(AbsInt(x.n), y.d)
             g2 == Gcd(AbsInt(y.n), x.d)
         IN  Fin((x.n \div g1) * (y.n \div g2), (x.d \div g2) * (y.d \div g1))

\* x / y (a zero divisor is +0 here: every zero the code divides by comes
\* out of math.Abs or of 1 + gapPercent)
FDiv(x, y) ==
    IF x.k = "nan" \/ y.k = "nan" THEN NaN
    ELSE IF x.k = "inf" THEN (IF y.k = "inf" THEN NaN ELSE Inf(x.n * SignInt(y.n)))
    ELSE IF y.k = "inf" THEN Fin(0, 1)
    ELSE IF y.n = 0 THEN (IF x.n = 0 THEN NaN ELSE Inf(SignInt(x.n)))
    ELSE FMul(x, Fin(SignInt(y.n) * y.d, AbsInt(y.n)))

\* math.Abs
FAbs(x) == IF x.k = "nan" THEN NaN ELSE [x EXCEPT !.n = AbsInt(x.n)]

\* x < y (false whenever an operand is NaN)
FLess(x, y) ==
    IF x.k = "nan" \/ y.k = "nan" THEN FALSE
    ELSE IF x.k = "inf" THEN x.n = -1 /\ ~(y.k = "inf" /\ y.n = -1)
    ELSE IF y.k = "inf" THEN y.n = 1
    ELSE x.n * y.d < y.n * x.d

\* math.Round: nearest integer, halves away from zero; NaN, Inf unchanged
FRound(x) ==
    IF x.k # "fin" THEN x
    ELSE Fin(SignInt(x.n) * ((2 * AbsInt(x.n) + x.d) \div (2 * x.d)), 1)

\* float64(i)
FromInt(i) == Fin(i, 1)

\* int(x) for a NaN or infinite x: the Go specification leaves the value
\* implementation-dependent.  An amd64 build yields the minimum int64 for
\* all of them, an arm64 build saturates and yields 0 for NaN.  The two
\* extreme values below stand for the minimum and maximum int64.
Builds == {"amd64", "arm64"}

OutOfRangeInt(x, build) ==
    IF build = "amd64" THEN -2147483647
    ELSE IF x.k = "nan" THEN 0
    ELSE x.n * 2147483647

\* A slip for ToInt: rounds to the nearest integer instead of truncating
ToIntNearest(x, build) ==
    IF x.k # "fin" THEN OutOfRangeInt(x, build)
    ELSE SignInt(x.n) * ((2 * AbsInt(x.n) + x.d) \div (2 * x.d))

\* int(x): truncation toward zero
ToInt(x, build) ==
    IF x.k # "fin" THEN OutOfRangeInt(x, build)
    ELSE SignInt(x.n) * (AbsInt(x.n) \div x.d)

\* A slip for Round2: cuts the digits after the second decimal off
Round2Truncates(x) ==
    IF x.k # "fin" THEN x
    ELSE LET y == FMul(x, FromInt(100))
         IN  FDiv(FromInt(SignInt(y.n) * (AbsInt(y.n) \div y.d)), FromInt(100))

\* math.Round(x*100) / 100
Round2(x) == FDiv(FRound(FMul(x, FromInt(100))), FromInt(100))

----------------------------------------------------------------------------
\* Risk policy (package-level variables)

accountBalance == FromInt(10000)

lossTolerance == Fin(2, 10)

maxLossPerTrade == FMul(accountBalance, lossTolerance)

profitPercent == Fin(8, 10)

\* |stopLoss - openingPrice|, the divisor of the share count
ShareDivisor(gapPercent, openingPrice) ==
    LET closingPrice == FDiv(openingPrice, FAdd(FromInt(1), gapPercent))
        gapValue == FSub(closingPrice, openingPrice)
        profitFromGap == FMul(profitPercent, gapValue)
        stopLoss == FSub(openingPrice, profitFromGap)
    IN  FAbs(FSub(stopLoss, openingPrice))

Calculate(gapPercent, openingPrice, build) ==
    LET closingPrice == FDiv(openingPrice, FAdd(FromInt(1), gapPercent))
        gapValue == FSub(closingPrice, openingPrice)
        profitFromGap == FMul(profitPercent, gapValue)
        stopLoss == FSub(openingPrice, profitFromGap)
        takeProfit == FAdd(openingPrice, profitFromGap)
        shares == ToInt(FDiv(maxLossPerTrade, FAbs(FSub(stopLoss, openingPrice))), build)
        profit == Round2(FMul(FAbs(FSub(openingPrice, takeProfit)), FromInt(shares)))
    IN  [EntryPrice |-> Round2(openingPrice),
         Shares |-> shares,
         TakeProfitPrice |-> Round2(takeProfit),
         StopLossPrice |-> Round2(stopLoss),
         Profit |-> Round2(profit)]

----------------------------------------------------------------------------
\* opg.csv: the records of the file, header first.  A field is its text.

Header == <<"Ticker", "Gap", "OpeningPrice">>

\* The rows the files of Spec are made of
DataRows ==
    { <<"XYZ", "0.15", "100">>,
      <<"AAA", "-0.10", "70">>,
      <<"LOW", "0.05", "100">>,
      <<"NAN", "NaN", "100">>,
      <<"BAD", "n/a", "">> }

\* The rows of the one-row files of SizingSpec
GapTexts == {"0.15", "-0.15", "0.12", "0.3", "-0.5", "0.05", "-0.05", "-1", "NaN", "n/a"}

PriceTexts == {"100", "70", "0.01", "12.34", "250", "33", "7.5", "0", ""}

SizingRows == DataRows \cup {<<"XYZ", g, p>> : g \in GapTexts, p \in PriceTexts}

RECURSIVE SeqsUpTo(_, _)
SeqsUpTo(S, n) ==
    IF n = 0 THEN {<<>>}
    ELSE LET shorter == SeqsUpTo(S, n - 1)
         IN  shorter \cup {Append(q, x) : q \in {r \in shorter : Len(r) = n - 1}, x \in S}

\* strconv.ParseFloat(text, 64) on the field texts above
ParseFloat(text) ==
    CASE text = "0.15"  -> [val |-> Fin(15, 100), err |-> FALSE]
      [] text = "-0.15" -> [val |-> Fin(-15, 100), err |-> FALSE]
      [] text = "0.12"  -> [val |-> Fin(12, 100), err |-> FALSE]
      [] text = "0.3"   -> [val |-> Fin(3, 10), err |-> FALSE]
      [] text = "-0.5"  -> [val |-> Fin(-5, 10), err |-> FALSE]
      [] text = "-0.10" -> [val |-> Fin(-10, 100), err |-> FALSE]
      [] text = "0.05"  -> [val |-> Fin(5, 100), err |-> FALSE]
      [] text = "-0.05" -> [val |-> Fin(-5, 100), err |-> FALSE]
      [] text = "-1"    -> [val |-> Fin(-1, 1), err |-> FALSE]
      [] text = "NaN"   -> [val |-> NaN, err |-> FALSE]
      [] text = "100"   -> [val |-> Fin(100, 1), err |-> FALSE]
      [] text = "70"    -> [val |-> Fin(70, 1), err |-> FALSE]
      [] text = "0.01"  -> [val |-> Fin(1, 100), err |-> FALSE]
      [] text = "12.34" -> [val |-> Fin(1234, 100), err |-> FALSE]
      [] text = "250"   -> [val |-> Fin(250, 1), err |-> FALSE]
      [] text = "33"    -> [val |-> Fin(33, 1), err |-> FALSE]
      [] text = "7.5"   -> [val |-> Fin(75, 10), err |-> FALSE]
      [] text = "0"     -> [val |-> Fin(0, 1), err |-> FALSE]
      [] OTHER          -> [val |-> Fin(0, 1), err |-> TRUE]

\* The loop of Load over the data rows: a row with an unparsable gap or
\* opening price is skipped
RECURSIVE LoadRows(_)
LoadRows(rows) ==
    IF rows = <<>> THEN <<>>
    ELSE LET row == Head(rows)
             gap == ParseFloat(row[2])
             openingPrice == ParseFloat(row[3])
         IN  IF gap.err \/ openingPrice.err
             THEN LoadRows(Tail(rows))
             ELSE <<[Ticker |-> row[1], Gap |-> gap.val,
                     OpeningPrice |-> openingPrice.val]>> \o LoadRows(Tail(rows))

\* Load after a successful ReadAll of a non-empty file: the header row is
\* deleted, the rest is parsed
Load(records) == LoadRows(Tail(records))

\* A slip for IsUnworthy: <= instead of <
IsUnworthyInclusive(s) == ~FLess(Fin(1, 10), FAbs(s.Gap))

\* The closure main passes to slices.DeleteFunc
IsUnworthy(s) == FLess(FAbs(s.Gap), Fin(1, 10))

\* slices.DeleteFunc(stocks, IsUnworthy)
RECURSIVE DeleteFunc(_)
DeleteFunc(s) ==
    IF s = <<>> THEN <<>>
    ELSE IF IsUnworthy(Head(s)) THEN DeleteFunc(Tail(s))
    ELSE <<Head(s)>> \o DeleteFunc(Tail(s))

----------------------------------------------------------------------------
\* The news service's answer to one request, as FetchNews sees it:
\* transport: client.Do returned no error; status: resp.StatusCode;
\* wellFormed: the body is the expected JSON; decoded: what Decode leaves in
\* res.Data (nothing after a syntax error, the items before the offending
\* one after a type error).

Item(n) == [publishOn |-> n, title |-> "headline"]

Responses ==
    { [transport |-> FALSE, status |-> 0, wellFormed |-> FALSE, decoded |-> <<>>],
      [transport |-> TRUE, status |-> 404, wellFormed |-> FALSE, decoded |-> <<>>],
      [transport |-> TRUE, status |-> 200, wellFormed |-> TRUE, decoded |-> <<Item(1), Item(2)>>],
      [transport |-> TRUE, status |-> 200, wellFormed |-> FALSE, decoded |-> <<>>],
      [transport |-> TRUE, status |-> 200, wellFormed |-> FALSE, decoded |-> <<Item(1)>>] }

RECURSIVE Articles(_)
Articles(data) ==
    IF data = <<>> THEN <<>>
    ELSE <<[PublishOn |-> Head(data).publishOn, Headline |-> Head(data).title]>>
         \o Articles(Tail(data))

\* A slip for FetchNews: the error of client.Do is dropped as well
FetchNewsSwallowsTransportError(ticker, resp) ==
    IF ~resp.transport
    THEN [articles |-> <<>>, err |-> "nil"]
    ELSE IF resp.status < 200 \/ resp.status > 299
    THEN [articles |-> <<>>, err |-> "unsuccessful response code"]
    ELSE [articles |-> Articles(resp.decoded), err |-> "nil"]

\* FetchNews: the error of Decode is dropped, so a malformed body is no error
FetchNews(ticker, resp) ==
    IF ~resp.transport
    THEN [articles |-> <<>>, err |-> "transport"]
    ELSE IF resp.status < 200 \/ resp.status > 299
    THEN [articles |-> <<>>, err |-> "unsuccessful response code"]
    ELSE [articles |-> Articles(resp.decoded), err |-> "nil"]

\* json cannot encode NaN or an infinite float64
Encodable(sel) ==
    /\ IsFinite(sel.Position.EntryPrice)
    /\ IsFinite(sel.Position.TakeProfitPrice)
    /\ IsFinite(sel.Position.StopLossPrice)
    /\ IsFinite(sel.Position.Profit)

\* Deliver(outputPath, batch); fs is what the file system does:
\* "ok", "create fails" or "write fails"
Deliver(fs, batch, oldFile) ==
    IF fs = "create fails"
    THEN [err |-> "error creating file", file |-> oldFile]
    ELSE IF fs = "write fails" \/ \E i \in 1..Len(batch) : ~Encodable(batch[i])
    THEN [err |-> "error encoding selections", file |-> [written |-> FALSE, batch |-> <<>>]]
    ELSE [err |-> "nil", file |-> [written |-> TRUE, batch |-> batch]]

FileSystems == {"ok", "create fails", "write fails"}

\* A slip for BatchComplete: the channel is closed one receive early
BatchCompleteOneEarly(sels, stks) == Len(sels) = Len(stks) - 1

\* The test of the collecting loop: all results are in
BatchComplete(sels, stks) == Len(sels) = Len(stks)

\* make(chan Selection, len(stocks))
ChanCapacity(stks) == Len(stks)

----------------------------------------------------------------------------
VARIABLES
    build,          \* the architecture the program was built for
    csvReadable,    \* os.Open and ReadAll of ./opg.csv succeed
    csvRecords,     \* the records of ./opg.csv
    mainPc,         \* where main is
    stocks,         \* main's stocks
    chanCap,        \* capacity of selectionChan
    selectionChan,  \* the selections buffered in selectionChan
    chanClosed,     \* selectionChan is closed
    closeCalls,     \* number of close(selectionChan) executed
    taskPc,         \* per goroutine: "running" or "done"
    taskStock,      \* per goroutine: its argument s
    taskResp,       \* per goroutine: the answer its FetchNews got
    taskSel,        \* per goroutine: its sel
    taskOut,        \* per goroutine: the lines it wrote to stdout
    fetchCalls,     \* per goroutine: number of FetchNews calls
    sendCount,      \* per goroutine: number of completed sends
    selections,     \* main's selections
    deliverCalls,   \* number of Deliver calls
    deliverArg,     \* the batch Deliver was called with
    deliverErr,     \* the error Deliver returned
    outFile,        \* ./opg.json
    mainOut,        \* the lines main wrote to stdout
    exitStatus,     \* exit status of the process, -1 while it runs
    panicMsg        \* the panic or fatal error that ended the process

vars == <<build, csvReadable, csvRecords, mainPc, stocks, chanCap, selectionChan,
          chanClosed, closeCalls, taskPc, taskStock, taskResp, taskSel,
          taskOut, fetchCalls, sendCount, selections, deliverCalls,
          deliverArg, deliverErr, outFile, mainOut, exitStatus, panicMsg>>

inputVars == <<build, csvReadable, csvRecords>>

chanVars == <<chanCap, selectionChan, chanClosed, closeCalls>>

taskVars == <<taskPc, taskStock, taskResp, taskSel, taskOut, fetchCalls, sendCount>>

deliverVars == <<deliverCalls, deliverArg, deliverErr, outFile>>

NoFile == [written |-> FALSE, batch |-> <<>>]

NoResp == [transport |-> FALSE, status |-> -1, wellFormed |-> FALSE, decoded |-> <<>>]

NoSel == [Ticker |-> "", Position |-> Calculate(Fin(1, 1), Fin(1, 1), "amd64"), Articles |-> <<>>]

\* The state after the package-level variables are set, whatever the file
InitProgram ==
    /\ mainPc = "load"
    /\ stocks = <<>>
    /\ chanCap = 0
    /\ selectionChan = <<>>
    /\ chanClosed = FALSE
    /\ closeCalls = 0
    /\ taskPc = <<>>
    /\ taskStock = <<>>
    /\ taskResp = <<>>
    /\ taskSel = <<>>
    /\ taskOut = <<>>
    /\ fetchCalls = <<>>
    /\ sendCount = <<>>
    /\ selections = <<>>
    /\ deliverCalls = 0
    /\ deliverArg = <<>>
    /\ deliverErr = "nil"
    /\ outFile = NoFile
    /\ mainOut = <<>>
    /\ exitStatus = -1
    /\ panicMsg = "none"

\* The process ends with a panic or a fatal error of the runtime
Crash(msg) ==
    /\ mainPc' = "crashed"
    /\ exitStatus' = 2
    /\ panicMsg' = msg

\* main, lines 181-185: Load; an unreadable file is reported and main
\* returns; an empty file makes slices.Delete(rows, 0, 1) panic
MainLoad ==
    /\ mainPc = "load"
    /\ IF ~csvReadable
       THEN /\ mainOut' = mainOut \o <<"load error", "load error">>
            /\ mainPc' = "exited"
            /\ exitStatus' = 0
            /\ UNCHANGED <<stocks, panicMsg>>
       ELSE IF csvRecords = <<>>
       THEN /\ Crash("slice bounds out of range")
            /\ UNCHANGED <<stocks, mainOut>>
       ELSE /\ stocks' = Load(csvRecords)
            /\ mainPc' = "filter"
            /\ UNCHANGED <<mainOut, exitStatus, panicMsg>>
    /\ UNCHANGED <<inputVars, chanVars, taskVars, selections, deliverVars>>

\* main, lines 189-201: the filter and the making of the channel
MainFilter ==
    /\ mainPc = "filter"
    /\ stocks' = DeleteFunc(stocks)
    /\ chanCap' = ChanCapacity(stocks')
    /\ mainPc' = "go"
    /\ UNCHANGED <<inputVars, selectionChan, chanClosed, closeCalls, taskVars,
                   selections, deliverVars, mainOut, exitStatus, panicMsg>>

\* A slip for MainGo: the goroutines share the loop variable and all see
\* the last stock
MainGoSharesLoopVariable ==
    /\ mainPc = "go"
    /\ Len(taskPc) < Len(stocks)
    /\ taskPc' = Append(taskPc, "running")
    /\ taskStock' = Append(taskStock, stocks[Len(stocks)])
    /\ taskResp' = Append(taskResp, NoResp)
    /\ taskSel' = Append(taskSel, NoSel)
    /\ taskOut' = Append(taskOut, <<>>)
    /\ fetchCalls' = Append(fetchCalls, 0)
    /\ sendCount' = Append(sendCount, 0)
    /\ UNCHANGED <<inputVars, mainPc, stocks, chanVars, selections, deliverVars,
                   mainOut, exitStatus, panicMsg>>

\* main, lines 202-220: one go statement of the loop over stocks
MainGo ==
    /\ mainPc = "go"
    /\ Len(taskPc) < Len(stocks)
    /\ taskPc' = Append(taskPc, "running")
    /\ taskStock' = Append(taskStock, stocks[Len(taskPc) + 1])
    /\ taskResp' = Append(taskResp, NoResp)
    /\ taskSel' = Append(taskSel, NoSel)
    /\ taskOut' = Append(taskOut, <<>>)
    /\ fetchCalls' = Append(fetchCalls, 0)
    /\ sendCount' = Append(sendCount, 0)
    /\ UNCHANGED <<inputVars, mainPc, stocks, chanVars, selections, deliverVars,
                   mainOut, exitStatus, panicMsg>>

\* main leaves the loop over stocks and reaches the range loop
MainGoDone ==
    /\ mainPc = "go"
    /\ Len(taskPc) = Len(stocks)
    /\ mainPc' = "collect"
    /\ UNCHANGED <<inputVars, stocks, chanVars, taskVars, selections, deliverVars,
                   mainOut, exitStatus, panicMsg>>

Alive == mainPc \notin {"exited", "crashed"}

\* goroutine i, lines 206-217: Calculate, FetchNews (the answer arrives),
\* the two reports, sel and its send.  Everything before the send reads and
\* writes only the goroutine's own values, so the body is one step, taken
\* when the send can be: the send waits while the buffer is full and panics
\* on a closed channel.
Task(i) ==
    /\ Alive
    /\ taskPc[i] = "running"
    /\ chanClosed \/ Len(selectionChan) < chanCap
    /\ \E resp \in Responses :
         LET s == taskStock[i]
             position == Calculate(s.Gap, s.OpeningPrice, build)
             r == FetchNews(s.Ticker, resp)
             report == IF r.err # "nil"
                       THEN <<[line |-> "error loading news", ticker |-> s.Ticker,
                               n |-> 0, err |-> r.err]>>
                       ELSE <<>>
             found == <<[line |-> "Found articles", ticker |-> s.Ticker,
                         n |-> Len(r.articles), err |-> "nil"]>>
             sel == [Ticker |-> s.Ticker, Position |-> position,
                     Articles |-> r.articles]
         IN  /\ taskResp' = [taskResp EXCEPT ![i] = resp]
             /\ fetchCalls' = [fetchCalls EXCEPT ![i] = @ + 1]
             /\ taskOut' = [taskOut EXCEPT ![i] = @ \o report \o found]
             /\ taskSel' = [taskSel EXCEPT ![i] = sel]
             /\ IF chanClosed
                THEN /\ Crash("send on closed channel")
                     /\ UNCHANGED <<selectionChan, taskPc, sendCount>>
                ELSE /\ selectionChan' = Append(selectionChan, sel)
                     /\ taskPc' = [taskPc EXCEPT ![i] = "done"]
                     /\ sendCount' = [sendCount EXCEPT ![i] = @ + 1]
                     /\ UNCHANGED <<mainPc, exitStatus, panicMsg>>
    /\ UNCHANGED <<inputVars, stocks, chanCap, chanClosed, closeCalls, taskStock,
                   selections, deliverVars, mainOut>>

\* main, lines 224-229: one iteration of the range loop
MainReceive ==
    /\ mainPc = "collect"
    /\ selectionChan # <<>>
    /\ selections' = Append(selections, Head(selectionChan))
    /\ selectionChan' = Tail(selectionChan)
    /\ IF BatchComplete(selections', stocks)
       THEN IF chanClosed
            THEN /\ Crash("close of closed channel")
                 /\ UNCHANGED <<chanClosed, closeCalls>>
            ELSE /\ chanClosed' = TRUE
                 /\ closeCalls' = closeCalls + 1
                 /\ UNCHANGED <<mainPc, exitStatus, panicMsg>>
       ELSE UNCHANGED <<chanClosed, closeCalls, mainPc, exitStatus, panicMsg>>
    /\ UNCHANGED <<inputVars, stocks, chanCap, taskVars, deliverVars, mainOut>>

\* main, line 224: the range loop ends on a closed and drained channel
MainRangeEnd ==
    /\ mainPc = "collect"
    /\ selectionChan = <<>>
    /\ chanClosed
    /\ mainPc' = "deliver"
    /\ UNCHANGED <<inputVars, stocks, chanVars, taskVars, selections, deliverVars,
                   mainOut, exitStatus, panicMsg>>

\* main, line 224: main waits on an open, empty channel and no goroutine is
\* left that could send: the runtime ends the process with
\* "fatal error: all goroutines are asleep - deadlock!"
MainDeadlock ==
    /\ mainPc = "collect"
    /\ selectionChan = <<>>
    /\ ~chanClosed
    /\ \A i \in 1..Len(taskPc) : taskPc[i] = "done"
    /\ Crash("all goroutines are asleep - deadlock!")
    /\ UNCHANGED <<inputVars, stocks, chanVars, taskVars, selections, deliverVars,
                   mainOut>>

\* main, lines 231-238: Deliver and the report of its outcome; main returns
\* in both cases
MainDeliver ==
    /\ mainPc = "deliver"
    /\ \E fs \in FileSystems :
         LET r == Deliver(fs, selections, outFile)
         IN  /\ deliverErr' = r.err
             /\ outFile' = r.file
             /\ mainOut' = Append(mainOut, IF r.err # "nil"
                                           THEN "Error writing output"
                                           ELSE "Finished writing output")
    /\ deliverCalls' = deliverCalls + 1
    /\ deliverArg' = selections
    /\ mainPc' = "exited"
    /\ exitStatus' = 0
    /\ UNCHANGED <<inputVars, stocks, chanVars, taskVars, selections, panicMsg>>

Next ==
    \/ MainLoad
    \/ MainFilter
    \/ MainGo
    \/ MainGoDone
    \/ \E i \in 1..Len(taskPc) : Task(i)
    \/ MainReceive
    \/ MainRangeEnd
    \/ MainDeadlock
    \/ MainDeliver

\* Files of up to MaxRows rows of DataRows, an empty file, an unreadable one
Init ==
    /\ build \in Builds
    /\ csvReadable \in BOOLEAN
    /\ csvRecords \in
         IF csvReadable
         THEN {<<>>} \cup {<<Header>> \o rows : rows \in SeqsUpTo(DataRows, MaxRows)}
         ELSE {<<>>}
    /\ InitProgram

Spec == Init /\ [][Next]_vars

\* Files of one row of SizingRows: main applies the filter and Calculate to
\* every gap and opening price of GapTexts and PriceTexts
SizingInit ==
    /\ build \in Builds
    /\ csvReadable = TRUE
    /\ csvRecords \in {<<Header, row>> : row \in SizingRows}
    /\ InitProgram

SizingSpec == SizingInit /\ [][Next]_vars

----------------------------------------------------------------------------
\* Properties

Tasks == 1..Len(taskPc)

\* main has run the filter
PastFilter == csvReadable /\ csvRecords # <<>> /\ mainPc \notin {"load", "filter"}

HasLine(out, line) == \E k \in 1..Len(out) : out[k].line = line

Holds(q, sel) == \E k \in 1..Len(q) : q[k] = sel

\* The answer is a transport failure or carries a non-success status
ResponseFails(resp) == ~resp.transport \/ resp.status \notin 200..299

\* The answer is a success whose body is not the expected JSON
ResponseMalformed(resp) == resp.transport /\ resp.status \in 200..299 /\ ~resp.wellFormed

Perms(n) == {f \in [1..n -> 1..n] : \A i, j \in 1..n : f[i] = f[j] => i = j}

\* C1: for every number N >= 0 of filtered candidates the collecting loop
\* ends: main never ends up waiting on the channel with nothing left to
\* arrive, and it goes on to Deliver exactly with N results received.
C1_CollectionCompletes ==
    /\ panicMsg # "all goroutines are asleep - deadlock!"
    /\ mainPc = "deliver" => Len(selections) = Len(stocks)

\* C2: Deliver is called at most once, and the batch it is called with holds
\* exactly one selection per filtered candidate: some one-to-one matching
\* pairs each candidate with a selection of its ticker that carries the
\* Position computed from its gap and opening price.
C2_DeliverBatchMatchesCandidates ==
    /\ deliverCalls <= 1
    /\ deliverCalls = 1 =>
         /\ Len(deliverArg) = Len(stocks)
         /\ \E f \in Perms(Len(stocks)) : \A i \in 1..Len(stocks) :
              /\ deliverArg[f[i]].Ticker = stocks[i].Ticker
              /\ deliverArg[f[i]].Position =
                   Calculate(stocks[i].Gap, stocks[i].OpeningPrice, build)

\* Deliver got a batch of two in the reverse of the input order, one of them
\* from a failed lookup
C2_Witness ==
    /\ deliverCalls = 1
    /\ Len(deliverArg) = 2
    /\ stocks[1].Ticker # stocks[2].Ticker
    /\ deliverArg[1].Ticker = stocks[2].Ticker
    /\ ResponseFails(taskResp[2])
    /\ deliverArg[2].Articles # <<>>

\* C3: a goroutine whose lookup failed (transport failure or non-success
\* status) has called FetchNews once, reported the failure, and sent exactly
\* one selection, with no articles, which is in the channel or collected;
\* no goroutine's send is blocked, nothing panicked, main is not stuck in
\* the collecting loop and leaves it with all results.
C3_FailedLookupDegrades ==
    \A i \in Tasks :
        (taskPc[i] = "done" /\ ResponseFails(taskResp[i])) =>
            /\ fetchCalls[i] = 1
            /\ HasLine(taskOut[i], "error loading news")
            /\ sendCount[i] = 1
            /\ taskSel[i].Articles = <<>>
            /\ Holds(selections \o selectionChan, taskSel[i])
            /\ panicMsg = "none"
            /\ \A j \in Tasks : taskPc[j] = "running" =>
                   ~chanClosed /\ Len(selectionChan) < chanCap
            /\ (mainPc = "collect" /\ selectionChan = <<>> /\ ~chanClosed) =>
                   \E j \in Tasks : taskPc[j] = "running"
            /\ mainPc \in {"deliver", "exited"} => Len(selections) = Len(stocks)

\* Two goroutines, the first lookup failed, the second did not, and main has
\* left the collecting loop
C3_Witness ==
    /\ mainPc = "deliver"
    /\ Len(taskPc) = 2
    /\ ResponseFails(taskResp[1])
    /\ taskSel[2].Articles # <<>>

\* C4: a malformed body is handled like the other two failure kinds: the
\* lookup is reported as failed and the selection has no articles.
C4_MalformedBodyIsFailure ==
    \A i \in Tasks :
        (taskPc[i] = "done" /\ ResponseMalformed(taskResp[i])) =>
            /\ HasLine(taskOut[i], "error loading news")
            /\ taskSel[i].Articles = <<>>

\* C5: when Deliver fails, the error is reported, the success message is
\* not, Deliver is not called again, and the process ends with a non-zero
\* exit status.
C5_DeliverFailureIsFatal ==
    deliverErr # "nil" =>
        /\ Holds(mainOut, "Error writing output")
        /\ ~Holds(mainOut, "Finished writing output")
        /\ deliverCalls = 1
        /\ exitStatus # 0

\* |Gap| >= 0.10, in integers
GapAtLeastTenPercent(s) ==
    \/ s.Gap.k = "inf"
    \/ s.Gap.k = "fin" /\ 10 * AbsInt(s.Gap.n) >= s.Gap.d

\* not |Gap| < 0.10: |Gap| >= 0.10, or the gap is NaN
GapNotBelowTenPercent(s) == s.Gap.k = "nan" \/ GapAtLeastTenPercent(s)

\* C6 as stated: after the filter, stocks is exactly the subsequence of the
\* loaded rows with |Gap| >= 0.10, in input order.
C6_FilterKeepsGapAtLeastTenPercent ==
    PastFilter => stocks = SelectSeq(Load(csvRecords), GapAtLeastTenPercent)

\* C6 as amended: after the filter, stocks is exactly the subsequence of the
\* loaded rows whose |Gap| is not below 0.10, in input order: a row with
\* |Gap| < 0.10 is excluded, a row with |Gap| >= 0.10 (exactly 0.10 and
\* negative gaps included) or with a NaN gap is kept exactly once.
C6_FilterDropsGapBelowTenPercent ==
    PastFilter => stocks = SelectSeq(Load(csvRecords), GapNotBelowTenPercent)

\* The filter dropped the first of two loaded rows and kept the second,
\* whose gap is exactly -0.10
C6_Witness ==
    /\ PastFilter
    /\ Len(Load(csvRecords)) = 2
    /\ Len(stocks) = 1
    /\ stocks[1] = Load(csvRecords)[2]
    /\ stocks[1].Gap = Fin(-1, 10)

\* The goroutines that have run Calculate(0.15, 100)
ScenarioTasks ==
    {i \in Tasks : /\ taskPc[i] = "done"
                   /\ taskStock[i].Gap = Fin(15, 100)
                   /\ taskStock[i].OpeningPrice = Fin(100, 1)}

\* C7 as stated: with maxLossPerTrade = 2000, Calculate(0.15, 100) gives
\* stop loss 110.43, take profit 89.57, 191 shares and profit 1991.13.
C7_ScenarioAsStated ==
    \A i \in ScenarioTasks :
        /\ maxLossPerTrade = Fin(2000, 1)
        /\ taskSel[i].Position.StopLossPrice = Fin(11043, 100)
        /\ taskSel[i].Position.TakeProfitPrice = Fin(8957, 100)
        /\ taskSel[i].Position.Shares = 191
        /\ taskSel[i].Position.Profit = Fin(199113, 100)

\* C7 as amended: with maxLossPerTrade = 2000, Calculate(0.15, 100) gives
\* entry 100, stop loss 110.43, take profit 89.57, 191 shares and profit
\* 1993.04.
C7_ScenarioAsComputed ==
    \A i \in ScenarioTasks :
        /\ maxLossPerTrade = Fin(2000, 1)
        /\ taskSel[i].Position.EntryPrice = Fin(100, 1)
        /\ taskSel[i].Position.StopLossPrice = Fin(11043, 100)
        /\ taskSel[i].Position.TakeProfitPrice = Fin(8957, 100)
        /\ taskSel[i].Position.Shares = 191
        /\ taskSel[i].Position.Profit = Fin(199304, 100)

C7_Witness == ScenarioTasks # {}

\* x <= y for numbers that are not NaN
FLeq(x, y) == ~FLess(y, x)

\* x is within 1/200 of the finite y and has at most two decimals
IsRound2Of(x, y) ==
    /\ x.k = "fin" /\ 100 % x.d = 0
    /\ FLeq(FAbs(FSub(x, y)), Fin(1, 200))

\* The goroutines that have run Calculate
Sized == {i \in Tasks : taskPc[i] = "done"}

\* 0.8 * openingPrice * gap / (1 + gap): stopLoss - openingPrice and
\* openingPrice - takeProfit before any rounding
Swing(s) ==
    FMul(Fin(4, 5), FDiv(FMul(s.OpeningPrice, s.Gap), FAdd(FromInt(1), s.Gap)))

C9_DivisorNeverZero ==
    /\ ~IsZero(profitPercent)
    /\ \A i \in Tasks :
         ~IsZero(ShareDivisor(taskStock[i].Gap, taskStock[i].OpeningPrice))

\* C10: selectionChan is closed at most once and only after every goroutine
\* has sent and every send has been received; no goroutine sends on the
\* closed channel; each goroutine sends at most once, the buffer never
\* exceeds its capacity len(stocks), and a goroutine that has yet to send
\* always finds room in the buffer.
C10_ChannelDiscipline ==
    /\ panicMsg \notin {"send on closed channel", "close of closed channel"}
    /\ closeCalls <= 1
    /\ chanClosed =>
         /\ closeCalls = 1
         /\ Len(taskPc) = Len(stocks)
         /\ \A i \in Tasks : taskPc[i] = "done"
         /\ Len(selections) = Len(stocks)
         /\ selectionChan = <<>>
    /\ \A i \in Tasks :
         /\ sendCount[i] = (IF taskPc[i] = "done" THEN 1 ELSE 0)
         /\ taskPc[i] = "running" => ~chanClosed /\ Len(selectionChan) < chanCap
    /\ Len(selectionChan) <= chanCap
    /\ PastFilter => chanCap = Len(stocks)

\* The channel was closed after the results of two goroutines
C10_Witness == chanClosed /\ Len(stocks) = 2

====
